---- MODULE Spec2Model ----
(***************************************************************************)
(* Synchronised video playback (croquet-video-demo, src/src/video.js).     *)
(*                                                                         *)
(* State: one replicated SyncedVideoModel, seen by every participant       *)
(* through its own replica of the ordered event log, and one               *)
(* SyncedVideoView per participant with its Video2DView adapter, its       *)
(* loads in flight, its pending play() promises and its future() calls.    *)
(*                                                                         *)
(* Units: every time is an integer number of milliseconds.  The code keeps *)
(* video times in seconds and session times in milliseconds and converts   *)
(* with the factor 1000; here a video time of 5.0 s is written 5000, so    *)
(* "sessionTime - 1000 * videoTime" reads "sessionTime - videoTimeMs".     *)
(* JS null/undefined are the empty tuple, a present value v is <<v>>.      *)
(***************************************************************************)
EXTENDS Integers, Sequences, FiniteSets, TLC

VARIABLES
    now,      \* the session clock, this.now()
    log,      \* the substrate's totally ordered events (addAsset, setPlayState)
    pos,      \* pos[p]: how many events of the log participant p's replica has executed
    inbox,    \* inbox[p]: the events the replica published and the view has not handled yet
    synced,   \* synced[p]: realm.isSynced of participant p
    view,     \* view[p]: the SyncedVideoView of participant p
    quota,    \* how many events the session's users publish altogether
    pub,      \* the events published to the model by the last step
    last,     \* the last step taken: its operation, participant and outcome
    check     \* the asset manager's availability check for participant 1's load

vars == <<now, log, pos, inbox, synced, view, quota, pub, last, check>>

(* ------------------------------ bounds --------------------------------- *)
Views == {1, 2}
MaxNow == 250          \* the session clock stops here
MaxEvents == 3         \* events published in a session
MaxPeerEvents == 2     \* events published while participant 1 loses and regains sync
MaxPlays == 2          \* play() promises pending at one view
MaxFutures == 1        \* future() calls pending at one view
MaxStepFutures == 2    \* ... or this many when all of them are stepWhileBlocked
Duration == 1000       \* video.duration of a dropped clip
LongDuration == 3050   \* video.duration of a dropped film
Proportions == {50, 100}      \* timebar positions, in percent of the bar
MaxDriftNow == 6250    \* the session clock of a session watched for drift stops here
MaxDriftEvents == 3    \* events published in such a session
Drifts == {-30, 0, 30}        \* how far an element's clock strays in one tick
DriftProportions == {25, 75}  \* timebar positions the film is started from
MaxSettle == 750       \* video.play() of the film has settled by then
MaxDesyncNow == 1000   \* the session clock of a session that loses sync stops here
MaxForeignEvents == 3  \* events published in a session joined by another application
MaxLateSettle == 2750  \* video.play() of a film that starts late has settled by then
MaxLateNow == 3500     \* the session clock of such a session stops here
MaxToggleEvents == 4   \* events published in a session whose user toggles the video
WrapStep == 50         \* video times handed to the adapter are multiples of this
MaxWrapSteps == 65     \* ... up to this many steps
JumpDiffs == {-600, -550, 550, 600}   \* measured diffs that make the armed check jump

BlobURLs == {"source", "poster"}   \* blob URLs an asset descriptor may refer to

(* -------------------------- program constants -------------------------- *)
MaxRetries == 60       \* ensureBlobsAvailable(..., 1000, 60)
FutureDelay == 250     \* this.future(250)
Lookahead == 100       \* play(calculateVideoTime() + 0.1)
Epsilon == 100         \* Math.min(this.duration - 0.1, videoTime)
SettleDelay == 500     \* lastTimingCheck = this.now() + 500
StatusDelay == 500     \* lastStatusCheck = this.now() + 500
StatusInterval == 100  \* now - this.lastStatusCheck > 100
TimingInterval == 500  \* now - lastTimingCheck >= 500
RateInterval == 3000   \* now - lastRateAdjust >= 3000
JumpThreshold == 500   \* Math.abs(videoDiffMS) > 500
JumpLookahead == 100   \* wrappedTime(videoTime - videoDiff + 0.1, true)
BigDiff == 150         \* diffAbs > 150
SmallDiff == 50        \* diffAbs > 50
HysteresisDiff == 25   \* diffAbs >= 25
BigBoost == 3          \* percent
SmallBoost == 1        \* percent

Null == <<>>
Some(x) == <<x>>
Min(a, b) == IF a < b THEN a ELSE b
Abs(x) == IF x < 0 THEN -x ELSE x
Sign(x) == IF x < 0 THEN -1 ELSE IF x > 0 THEN 1 ELSE 0

(* ------------------------------ Video2DView ---------------------------- *)

\* the asset descriptor of the film; every other dropped file is a clip
LongAsset == 9

\* this.duration = this.video.duration
DurationOf(url) == IF url = LongAsset THEN LongDuration ELSE Duration

\* new Video2DView(url), once its readyPromise has resolved
NewVideo2DView(url) ==
    [url |-> url, isPlaying |-> FALSE, isBlocked |-> FALSE, currentTime |-> 0,
     paused |-> TRUE, muted |-> FALSE, playbackRate |-> 100,
     duration |-> DurationOf(url)]

RECURSIVE LoopBack(_, _)
LoopBack(videoTime, duration) ==
    IF videoTime > duration THEN LoopBack(videoTime - duration, duration)
    ELSE videoTime

\* variant: the guard against the end of the video is left out
wrappedTimeUnguarded(duration, videoTime, guarded) == LoopBack(videoTime, duration)

wrappedTime(duration, videoTime, guarded) ==
    LET t == LoopBack(videoTime, duration)
    IN  IF guarded THEN Min(duration - Epsilon, t) ELSE t

\* the synchronous part of Video2DView.play: seek, then isPlaying = true
AdapterPlay(ad, videoTime) ==
    [ad EXCEPT !.currentTime = wrappedTime(ad.duration, videoTime, TRUE),
               !.isPlaying = TRUE]

\* Video2DView.setStatic: seek when a time is given, then video.pause()
setStatic(ad, optTime) ==
    [ad EXCEPT !.currentTime =
                   IF optTime = Null THEN @
                   ELSE wrappedTime(ad.duration, optTime[1], TRUE),
               !.paused = TRUE]

\* Video2DView.pause
AdapterPause(ad, optTime) ==
    setStatic([ad EXCEPT !.isPlaying = FALSE, !.isBlocked = FALSE], optTime)

\* variant: every rejection counts as blocked
PlaySettledAlwaysBlocked(ad, ok) ==
    IF ok THEN [ad EXCEPT !.isBlocked = FALSE, !.paused = FALSE]
    ELSE [ad EXCEPT !.isBlocked = TRUE]

\* the continuation of Video2DView.play once video.play() has settled
PlaySettled(ad, ok) ==
    IF ok THEN [ad EXCEPT !.isBlocked = FALSE, !.paused = FALSE]
    ELSE [ad EXCEPT !.isBlocked = ad.isPlaying]

(* ----------------------------- SyncedVideoModel ------------------------ *)
NoAsset == 0

ModelInit ==
    [isPlaying |-> FALSE, startOffset |-> Null, pausedTime |-> 0,
     assetDescriptor |-> NoAsset]

PlayState(isPlaying, startOffset, pausedTime) ==
    [isPlaying |-> isPlaying, startOffset |-> startOffset, pausedTime |-> pausedTime]

AddAssetEvent(a) ==
    [type |-> "addAsset", assetDescriptor |-> a,
     state |-> PlayState(FALSE, Null, 0), actionSpec |-> Null]

SetPlayStateEvent(ps, spec) ==
    [type |-> "setPlayState", assetDescriptor |-> NoAsset,
     state |-> ps, actionSpec |-> spec]

\* SyncedVideoModel.addAsset
addAsset(m, data) ==
    [isPlaying |-> FALSE, startOffset |-> Null, pausedTime |-> 0,
     assetDescriptor |-> data.assetDescriptor]

\* variant: a new play state forgets the asset
setPlayStateForgetsAsset(m, data) ==
    [isPlaying |-> data.state.isPlaying, startOffset |-> data.state.startOffset,
     pausedTime |-> data.state.pausedTime, assetDescriptor |-> NoAsset]

\* SyncedVideoModel.setPlayState
setPlayState(m, data) ==
    [m EXCEPT !.isPlaying = data.state.isPlaying,
              !.startOffset = data.state.startOffset,
              !.pausedTime = data.state.pausedTime]

ModelExecute(m, ev) ==
    IF ev.type = "addAsset" THEN addAsset(m, ev) ELSE setPlayState(m, ev)

RECURSIVE ModelAfter(_, _)
ModelAfter(events, n) ==
    IF n = 0 THEN ModelInit
    ELSE ModelExecute(ModelAfter(events, n - 1), events[n])

\* this.model as participant p's view reads it
Model(p) == ModelAfter(log, pos[p])

ModelPlayState(m) == PlayState(m.isPlaying, m.startOffset, m.pausedTime)

(* ----------------------------- SyncedVideoView ------------------------- *)

\* new SyncedVideoView(model): no video, nothing heard yet, nothing pending
NewView(p) ==
    [viewId |-> p,
     videoView |-> Null,            \* the attached Video2DView, if any
     waitingForSync |-> FALSE,      \* undefined until set: falsy
     latestPlayState |-> Null,
     latestActionSpec |-> Null,
     pointed |-> FALSE,             \* history: applyPlayState has had latestActionSpec
     isStepping |-> FALSE,
     playbackBoost |-> 0,
     lastTimingCheck |-> 0,
     lastRateAdjust |-> 0,
     jumpIfNeeded |-> FALSE,
     jumpedAt |-> Null,             \* history: when checkPlayStatus last jumped the video
     lastStatusCheck |-> StatusDelay,   \* this.now() + 500, built at session time 0
     measuredAt |-> Null,           \* history: when checkPlayStatus last measured the drift
     ratedAt |-> Null,              \* history: when it last evaluated the rate
     appliedAt |-> Null,            \* history: when a playing state was last applied
     detached |-> FALSE,            \* detach() has run: the view is torn down
     rebuilt |-> FALSE,             \* history: built when the tab rejoined the session
     abandonLoad |-> NoAsset,       \* the load whose okToGo this.abandonLoad clears
     loads |-> {},                  \* loads in flight, each with its okToGo
     started |-> NoAsset,           \* history: the asset of the latest loadVideo
     lastDragProportion |-> Null,   \* the tab's timebarView.lastDragProportion
     plays |-> <<>>,                \* play() promises not settled yet
     futures |-> <<>>,              \* future() calls not fired yet, in due order
     cmds |-> <<>>,                 \* adapter commands issued by the current step
     reveal |-> <<>>,               \* action specs pointed at by the current step
     threw |-> FALSE]               \* the current step ended in a TypeError

Cmd(op, arg) == [op |-> op, arg |-> arg]
Issue(v, c) == [v EXCEPT !.cmds = Append(@, c)]

\* video.pause() rejects the play() promises still pending on the element
AbortPlays(plays) ==
    [i \in DOMAIN plays |->
        IF plays[i].disposed THEN plays[i] ELSE [plays[i] EXCEPT !.aborted = TRUE]]

\* videoView.pause(t) as the view calls it
ViewPause(v, optTime) ==
    Issue([v EXCEPT !.videoView = Some(AdapterPause(v.videoView[1], optTime)),
                    !.plays = AbortPlays(@)],
          Cmd("pause", optTime))

\* videoView.setStatic(t) as the view calls it
ViewSetStatic(v, optTime) ==
    Issue([v EXCEPT !.videoView = Some(setStatic(v.videoView[1], optTime)),
                    !.plays = AbortPlays(@)],
          Cmd("setStatic", optTime))

\* videoView.play(t) as the view calls it: the promise stays pending
ViewPlay(v, videoTime) ==
    Issue([v EXCEPT !.videoView = Some(AdapterPlay(v.videoView[1], videoTime)),
                    !.plays = Append(@, [disposed |-> FALSE, aborted |-> FALSE])],
          Cmd("play", Some(videoTime)))

\* this.future(250).method()
Future(v, method, t) ==
    [v EXCEPT !.futures = Append(@, [method |-> method, due |-> t + FutureDelay])]

\* (sessionNow - startOffset) / 1000; a null startOffset coerces to 0
calculateVideoTime(v, t) ==
    LET startOffset == v.latestPlayState[1].startOffset
    IN  t - (IF startOffset = Null THEN 0 ELSE startOffset[1])

\* variant: the hand points at an action of any type
revealActionAnyType(v, spec) ==
    IF spec.viewId # v.viewId THEN [v EXCEPT !.reveal = Append(@, spec)] ELSE v

\* the hand points only for another view's action, at the video or at the
\* timebar; any other type throws
revealAction(v, spec) ==
    IF spec.viewId = v.viewId THEN v
    ELSE IF spec.type \in {"video", "timebar"}
    THEN [v EXCEPT !.reveal = Append(@, spec)]
    ELSE [v EXCEPT !.threw = TRUE]

ApplyPlayingRate(v, t) ==
    Issue([v EXCEPT !.videoView[1].playbackRate = 100 + v.playbackBoost,
                    !.lastRateAdjust = t,
                    !.appliedAt = Some(t),
                    !.jumpIfNeeded = FALSE],
          Cmd("rate", Some(100 + v.playbackBoost)))

applyPlayState(v, t) ==
    IF v.videoView = Null \/ v.waitingForSync THEN v
    ELSE LET ps == v.latestPlayState[1]
             v1 == IF ~ps.isPlaying
                   THEN ViewPause(v, Some(ps.pausedTime))
                   ELSE ViewPlay(ApplyPlayingRate(v, t),
                                 calculateVideoTime(v, t) + Lookahead)
         IN  IF v1.latestActionSpec # Null
             THEN [revealAction(v1, v1.latestActionSpec[1]) EXCEPT !.pointed = TRUE]
             ELSE v1

\* variant: the two objects compared by identity, which are never the same object
SameStateByIdentity(data, latest) == FALSE

\* every key of data equals the one of latest
SameState(data, latest) ==
    /\ data.isPlaying = latest.isPlaying
    /\ data.startOffset = latest.startOffset
    /\ data.pausedTime = latest.pausedTime

\* variant: a notification carrying the view's own id is taken as heard before
playStateChangedSkipOwn(v, data, actionSpec, t) ==
    LET v1 == [v EXCEPT !.latestActionSpec = actionSpec, !.pointed = FALSE]
    IN  IF \/ v.latestPlayState # Null /\ SameState(data, v.latestPlayState[1])
           \/ actionSpec # Null /\ actionSpec[1].viewId = v.viewId
        THEN v1
        ELSE applyPlayState([v1 EXCEPT !.latestPlayState = Some(data)], t)

playStateChanged(v, data, actionSpec, t) ==
    LET v1 == [v EXCEPT !.latestActionSpec = actionSpec, !.pointed = FALSE]
    IN  IF v.latestPlayState # Null /\ SameState(data, v.latestPlayState[1])
        THEN v1
        ELSE applyPlayState([v1 EXCEPT !.latestPlayState = Some(data)], t)

\* variant: the adapter is disposed of but the load in flight is not abandoned
disposeOfVideoKeepLoad(v) ==
    IF v.videoView # Null
    THEN [Issue(ViewPause(v, Null), Cmd("dispose", Null))
              EXCEPT !.videoView = Null,
                     !.plays = [i \in DOMAIN @ |-> [@[i] EXCEPT !.disposed = TRUE]]]
    ELSE v

disposeOfVideo(v) ==
    LET v1 == IF v.abandonLoad # NoAsset
              THEN [v EXCEPT !.loads = {IF l.id = v.abandonLoad
                                        THEN [l EXCEPT !.okToGo = FALSE]
                                        ELSE l : l \in v.loads},
                             !.abandonLoad = NoAsset]
              ELSE v
    IN  IF v1.videoView # Null
        THEN [Issue(ViewPause(v1, Null), Cmd("dispose", Null))
                  EXCEPT !.videoView = Null,
                         !.plays = [i \in DOMAIN @ |-> [@[i] EXCEPT !.disposed = TRUE]]]
        ELSE v1

loadVideo(v, m, isSynced, t) ==
    LET v1 == [disposeOfVideo(v) EXCEPT !.waitingForSync = ~isSynced]
        v2 == playStateChanged(v1, ModelPlayState(m), Null, t)
    IN  [v2 EXCEPT !.abandonLoad = m.assetDescriptor,
                   !.loads = @ \cup {[id |-> m.assetDescriptor, okToGo |-> TRUE]}]

\* the .then(videoView => ...) of loadVideo, for load l
loadCompleted(v, l, t) ==
    IF ~l.okToGo THEN v
    ELSE LET v1 == [v EXCEPT !.abandonLoad = NoAsset,
                             !.videoView = Some(NewVideo2DView(l.id)),
                             !.playbackBoost = 0]
             v2 == applyPlayState(v1, t)
         IN  IF v2.threw THEN v2
             ELSE [v2 EXCEPT !.lastTimingCheck = t + SettleDelay]

stepWhileBlocked(v, t) ==
    IF ~v.isStepping THEN v
    ELSE IF v.videoView = Null THEN [v EXCEPT !.threw = TRUE]
    ELSE IF ~v.videoView[1].isBlocked THEN [v EXCEPT !.isStepping = FALSE]
    ELSE Future(ViewSetStatic(v, Some(calculateVideoTime(v, t))),
                "stepWhileBlocked", t)

triggerJumpCheck(v) == [v EXCEPT !.jumpIfNeeded = TRUE]

\* variant: the synced signal only clears the flag
handleSyncStateFlagOnly(v, isSynced, t) ==
    [v EXCEPT !.waitingForSync = ~isSynced]

handleSyncState(v, isSynced, t) ==
    LET v1 == [v EXCEPT !.waitingForSync = ~isSynced]
    IN  IF v.waitingForSync /\ isSynced THEN applyPlayState(v1, t) ELSE v1

\* the .then(playStarted => ...) of applyPlayState, for pending play i
playSettled(v, i, ok, t) ==
    LET pl == v.plays[i]
        v0 == [v EXCEPT !.plays = SubSeq(@, 1, i - 1) \o SubSeq(@, i + 1, Len(@))]
        v1 == IF pl.disposed THEN v0
              ELSE [v0 EXCEPT !.videoView = Some(PlaySettled(v0.videoView[1], ok))]
        playStarted == IF pl.disposed THEN TRUE ELSE ~v1.videoView[1].isBlocked
    IN  IF playStarted THEN Future(v1, "triggerJumpCheck", t)
        ELSE IF ~v1.videoView[1].muted
        THEN applyPlayState([v1 EXCEPT !.videoView[1].muted = TRUE], t)
        ELSE stepWhileBlocked([v1 EXCEPT !.isStepping = TRUE], t)

\* variant: the offset taken on the wrong side of the session clock
ClickStartOffsetAhead(sessionTime, videoTime) == sessionTime + videoTime

\* variant: the boost takes the sign of the diff
DesiredBoostSameSign(videoDiffMS) ==
    Sign(videoDiffMS) * (IF Abs(videoDiffMS) > BigDiff THEN BigBoost
                         ELSE IF Abs(videoDiffMS) > SmallDiff THEN SmallBoost
                         ELSE 0)

\* -diffSign * (diffAbs > 150 ? 3 : (diffAbs > 50 ? 1 : 0)), in percent
DesiredBoost(videoDiffMS) ==
    - Sign(videoDiffMS) * (IF Abs(videoDiffMS) > BigDiff THEN BigBoost
                           ELSE IF Abs(videoDiffMS) > SmallDiff THEN SmallBoost
                           ELSE 0)

\* variant: no hysteresis on the return to 0
hysteresisBlockNever(desiredBoostPercent, oldBoostPercent, videoDiffMS) == FALSE

hysteresisBlock(desiredBoostPercent, oldBoostPercent, videoDiffMS) ==
    /\ desiredBoostPercent = 0
    /\ Sign(oldBoostPercent) = - Sign(videoDiffMS)
    /\ Abs(videoDiffMS) >= HysteresisDiff

\* variant: the new boost is recorded but not applied to the element
AdjustRateBoostOnly(v, videoDiffMS, t) ==
    LET old == v.playbackBoost
        desired == DesiredBoost(videoDiffMS)
        v1 == IF desired # old /\ ~hysteresisBlock(desired, old, videoDiffMS)
              THEN [v EXCEPT !.playbackBoost = desired]
              ELSE v
    IN  [v1 EXCEPT !.lastRateAdjust = t, !.ratedAt = Some(t)]

\* the rate evaluation of checkPlayStatus for the measured diff
AdjustRate(v, videoDiffMS, t) ==
    LET old == v.playbackBoost
        desired == DesiredBoost(videoDiffMS)
        v1 == IF desired # old /\ ~hysteresisBlock(desired, old, videoDiffMS)
              THEN Issue([v EXCEPT !.playbackBoost = desired,
                                   !.videoView[1].playbackRate = 100 + desired],
                         Cmd("rate", Some(100 + desired)))
              ELSE v
    IN  [v1 EXCEPT !.lastRateAdjust = t, !.ratedAt = Some(t)]

\* variant: the jump check stays armed after it has run
JumpCheckKeepArmed(v, videoDiffMS, t) ==
    LET ad == v.videoView[1]
        target == wrappedTime(ad.duration,
                              ad.currentTime - videoDiffMS + JumpLookahead, TRUE)
    IN  IF Abs(videoDiffMS) > JumpThreshold
        THEN Issue([v EXCEPT !.videoView[1].currentTime = target,
                             !.jumpedAt = Some(t)],
                   Cmd("seek", Some(target)))
        ELSE v

\* variant: the rate is evaluated in the measurement of the armed check too
JumpCheckThenRate(v, videoDiffMS, t) ==
    LET ad == v.videoView[1]
        v1 == [v EXCEPT !.jumpIfNeeded = FALSE]
        target == wrappedTime(ad.duration,
                              ad.currentTime - videoDiffMS + JumpLookahead, TRUE)
        v2 == IF Abs(videoDiffMS) > JumpThreshold
              THEN Issue([v1 EXCEPT !.videoView[1].currentTime = target,
                                    !.jumpedAt = Some(t)],
                         Cmd("seek", Some(target)))
              ELSE v1
    IN  IF t - v.lastRateAdjust >= RateInterval
        THEN AdjustRate(v2, videoDiffMS, t) ELSE v2

\* the armed jump check of checkPlayStatus for the measured diff
JumpCheck(v, videoDiffMS, t) ==
    LET ad == v.videoView[1]
        v1 == [v EXCEPT !.jumpIfNeeded = FALSE]
        target == wrappedTime(ad.duration,
                              ad.currentTime - videoDiffMS + JumpLookahead, TRUE)
    IN  IF Abs(videoDiffMS) > JumpThreshold
        THEN Issue([v1 EXCEPT !.videoView[1].currentTime = target,
                              !.jumpedAt = Some(t)],
                   Cmd("seek", Some(target)))
        ELSE v1

\* variant: the rate is evaluated at every measurement
RateDueAlways(v, t) == TRUE

\* now - lastRateAdjust >= 3000
RateDue(v, t) == t - v.lastRateAdjust >= RateInterval

\* variant: every measurement is acted on
AcrossLoopRestartNever(videoDiffMS, duration) == FALSE

\* the negation of videoDiff < this.videoView.duration / 2
AcrossLoopRestart(videoDiffMS, duration) == ~(2 * videoDiffMS < duration)

checkPlayStatus(v, t) ==
    IF v.videoView = Null THEN v
    ELSE LET ad == v.videoView[1]
         IN  IF ~(ad.isPlaying /\ ~ad.isBlocked /\ t - v.lastTimingCheck >= TimingInterval)
             THEN v
             ELSE LET v1 == [v EXCEPT !.lastTimingCheck = t, !.measuredAt = Some(t)]
                      expectedTime == wrappedTime(ad.duration, calculateVideoTime(v, t), FALSE)
                      videoDiffMS == ad.currentTime - expectedTime
                  IN  IF AcrossLoopRestart(videoDiffMS, ad.duration) THEN v1
                      ELSE IF v.jumpIfNeeded THEN JumpCheck(v1, videoDiffMS, t)
                      ELSE IF RateDue(v, t)
                      THEN AdjustRate(v1, videoDiffMS, t)
                      ELSE v1

\* update(), invoked on every animation frame
update(v, t) ==
    IF t - v.lastStatusCheck > StatusInterval
    THEN checkPlayStatus([v EXCEPT !.lastStatusCheck = t], t)
    ELSE v

\* the state a toggling click computes
ClickStartOffset(sessionTime, videoTime) == sessionTime - videoTime

\* variant: a pause publishes the paused time of the state it replaces
ClickStateStalePause(v, t) ==
    LET wantsToPlay == ~v.latestPlayState[1].isPlaying
        videoTime == v.videoView[1].currentTime
    IN  PlayState(wantsToPlay,
                  IF wantsToPlay THEN Some(ClickStartOffset(t, videoTime)) ELSE Null,
                  IF wantsToPlay THEN 0 ELSE v.latestPlayState[1].pausedTime)

ClickState(v, t) ==
    LET wantsToPlay == ~v.latestPlayState[1].isPlaying
        videoTime == v.videoView[1].currentTime
    IN  PlayState(wantsToPlay,
                  IF wantsToPlay THEN Some(ClickStartOffset(t, videoTime)) ELSE Null,
                  IF wantsToPlay THEN 0 ELSE videoTime)

\* the click reaches the toggle at the end of handleUserClick
ClickToggles(v) ==
    v.videoView # Null /\ ~v.isStepping /\ ~v.videoView[1].muted

\* variant: a click while stepping is handled as a click on a muted video
handleUserClickNoStepExit(v, t) ==
    IF v.videoView = Null THEN v
    ELSE IF v.videoView[1].muted THEN [v EXCEPT !.videoView[1].muted = FALSE]
    ELSE LET v1 == IF v.latestPlayState[1].isPlaying THEN ViewPause(v, Null) ELSE v
         IN  playStateChanged(v1, ClickState(v, t), Null, t)

handleUserClick(v, t) ==
    IF v.videoView = Null THEN v
    ELSE IF v.isStepping
    THEN applyPlayState([v EXCEPT !.videoView[1].muted = FALSE,
                                  !.isStepping = FALSE], t)
    ELSE IF v.videoView[1].muted THEN [v EXCEPT !.videoView[1].muted = FALSE]
    ELSE LET v1 == IF v.latestPlayState[1].isPlaying THEN ViewPause(v, Null) ELSE v
         IN  playStateChanged(v1, ClickState(v, t), Null, t)

\* variant: every click on a loaded video publishes the toggle
ClickPublishesWhenLoaded(v, t) ==
    IF v.videoView # Null
    THEN <<SetPlayStateEvent(ClickState(v, t),
                             Some([viewId |-> v.viewId, type |-> "video"]))>>
    ELSE <<>>

\* what handleUserClick publishes to the model
ClickPublishes(v, t) ==
    IF ClickToggles(v)
    THEN <<SetPlayStateEvent(ClickState(v, t),
                             Some([viewId |-> v.viewId, type |-> "video"]))>>
    ELSE <<>>

\* variant: a scrub keeps the start offset of the state it replaces
TimebarStateKeepsOffset(v, proportion) ==
    PlayState(FALSE, v.latestPlayState[1].startOffset,
              (v.videoView[1].duration * proportion) \div 100)

TimebarState(v, proportion) ==
    PlayState(FALSE, Null, (v.videoView[1].duration * proportion) \div 100)

\* variant: the scrub is published only and takes effect with its echo
handleTimebarPublishOnly(v, proportion, t) == v

handleTimebar(v, proportion, t) ==
    IF v.videoView = Null THEN v
    ELSE playStateChanged(v, TimebarState(v, proportion), Null, t)

\* variant: a scrub of a video that is paused already is not published
TimebarPublishesWhilePlaying(v, proportion) ==
    IF v.videoView = Null \/ ~v.latestPlayState[1].isPlaying THEN <<>>
    ELSE <<SetPlayStateEvent(TimebarState(v, proportion),
                             Some([viewId |-> v.viewId, type |-> "timebar"]))>>

TimebarPublishes(v, proportion) ==
    IF v.videoView = Null THEN <<>>
    ELSE <<SetPlayStateEvent(TimebarState(v, proportion),
                             Some([viewId |-> v.viewId, type |-> "timebar"]))>>

\* variant: the teardown leaves the video and the load in flight alone
detachKeepVideo(v) ==
    [v EXCEPT !.futures = <<>>, !.detached = TRUE]

\* detach(): super.detach() discards the future() calls, then disposeOfVideo
detach(v) ==
    [disposeOfVideo([v EXCEPT !.futures = <<>>]) EXCEPT !.detached = TRUE]

\* the view built when the tab rejoins at session time t; the tab's timebar
\* keeps its lastDragProportion
NewViewAt(p, t, lastDrag) ==
    [NewView(p) EXCEPT !.lastStatusCheck = t + StatusDelay,
                       !.rebuilt = TRUE,
                       !.lastDragProportion = lastDrag]

(* ------------------------------- the system ---------------------------- *)

Clr(v) == [v EXCEPT !.cmds = <<>>, !.reveal = <<>>, !.threw = FALSE]

Fits(v) ==
    /\ Len(v.plays) <= MaxPlays
    /\ \/ Len(v.futures) <= MaxFutures
       \/ /\ Len(v.futures) <= MaxStepFutures
          /\ \A i \in DOMAIN v.futures : v.futures[i].method = "stepWhileBlocked"

NoInbox == [psc |-> Null, load |-> FALSE]

(* ------------------------------ AssetManager --------------------------- *)

\* no availability check has been started
NoCheck ==
    [status |-> "idle", urls |-> {}, waitingFor |-> {}, retries |-> 0,
     rounds |-> 0, confirmed |-> {}]

\* ensureBlobsAvailable(blobURLs, ..., maxRetries) up to its first round of
\* HEAD requests; rounds and confirmed are history
StartCheck(blobURLs) ==
    [status |-> "checking", urls |-> blobURLs, waitingFor |-> blobURLs,
     retries |-> MaxRetries, rounds |-> 0, confirmed |-> {}]

\* variant: every round starts from the whole list again
AfterRoundFromScratch(c, present) ==
    LET waitingFor == c.urls \ present
        c1 == [c EXCEPT !.waitingFor = waitingFor, !.rounds = @ + 1,
                        !.confirmed = @ \cup present]
    IN  IF waitingFor = {} THEN [c1 EXCEPT !.status = "ok"]
        ELSE IF c.retries = 0 THEN [c1 EXCEPT !.status = "failed"]
        ELSE [c1 EXCEPT !.retries = @ - 1]

\* the .then of a round of runAssetCheck: the URLs in `present` answered ok
AfterRound(c, present) ==
    LET waitingFor == c.waitingFor \ present
        c1 == [c EXCEPT !.waitingFor = waitingFor, !.rounds = @ + 1,
                        !.confirmed = @ \cup present]
    IN  IF waitingFor = {} THEN [c1 EXCEPT !.status = "ok"]
        ELSE IF c.retries = 0 THEN [c1 EXCEPT !.status = "failed"]
        ELSE [c1 EXCEPT !.retries = @ - 1]

InitWith(events) ==
    /\ quota = events
    /\ now = 0
    /\ log = <<>>
    /\ pos = [p \in Views |-> 0]
    /\ inbox = [p \in Views |-> NoInbox]
    /\ synced = [p \in Views |-> FALSE]
    /\ view = [p \in Views |-> NewView(p)]
    /\ pub = <<>>
    /\ last = [op |-> "init", p |-> 0, ok |-> FALSE, arg |-> Null, pre |-> Null]
    /\ check = NoCheck

\* participant p's handler ran and left its view as v, publishing `published`
Step(p, v, published, op, ok, arg) ==
    /\ Fits(v)
    /\ Len(log) + Len(published) <= quota
    /\ view' = [q \in Views |-> IF q = p THEN v ELSE Clr(view[q])]
    /\ log' = log \o published
    /\ pub' = published
    /\ last' = [op |-> op, p |-> p, ok |-> ok, arg |-> arg, pre |-> Clr(view[p])]
    /\ UNCHANGED quota

NumAssets == Cardinality({i \in DOMAIN log : log[i].type = "addAsset"})

\* a file dropped on p's tab: the asset manager publishes addAsset
DropFile(p) ==
    /\ Step(p, Clr(view[p]), <<AddAssetEvent(NumAssets + 1)>>, "dropFile", TRUE, Null)
    /\ UNCHANGED <<now, pos, inbox, synced, check>>

\* p's replica executes the next event of the log and publishes to its view
Execute(p) ==
    /\ pos[p] < Len(log)
    /\ LET ev == log[pos[p] + 1]
       IN  /\ pos' = [pos EXCEPT ![p] = @ + 1]
           /\ inbox' = [inbox EXCEPT ![p] =
                  IF ev.type = "addAsset" THEN [@ EXCEPT !.load = TRUE]
                  ELSE [@ EXCEPT !.psc =
                            Some([state |-> ev.state, actionSpec |-> ev.actionSpec])]]
    /\ Step(p, Clr(view[p]), <<>>, "execute", TRUE, Null)
    /\ UNCHANGED <<now, synced, check>>

\* the queued playStateChanged (the latest one) reaches p's view
OnPlayStateChanged(p) ==
    /\ inbox[p].psc # Null
    /\ inbox' = [inbox EXCEPT ![p].psc = Null]
    /\ Step(p, playStateChanged(Clr(view[p]), inbox[p].psc[1].state,
                                inbox[p].psc[1].actionSpec, now),
            <<>>, "playStateChanged", TRUE, inbox[p].psc[1])
    /\ UNCHANGED <<now, pos, synced, check>>

\* the queued loadVideo reaches p's view: only while synced, after playStateChanged
OnLoadVideo(p) ==
    /\ inbox[p].load
    /\ inbox[p].psc = Null
    /\ synced[p]
    /\ inbox' = [inbox EXCEPT ![p].load = FALSE]
    /\ Step(p, [loadVideo(Clr(view[p]), Model(p), synced[p], now)
                    EXCEPT !.started = Model(p).assetDescriptor],
            <<>>, "loadVideo", TRUE, Model(p))
    /\ UNCHANGED <<now, pos, synced, check>>

\* the substrate tells p's view that it fell behind, or caught up
SyncChange(p) ==
    /\ synced' = [synced EXCEPT ![p] = ~@]
    /\ Step(p, handleSyncState(Clr(view[p]), ~synced[p], now),
            <<>>, "synced", ~synced[p], Null)
    /\ UNCHANGED <<now, pos, inbox, check>>

Click(p) ==
    /\ Step(p, handleUserClick(Clr(view[p]), now),
            ClickPublishes(view[p], now), "click", TRUE, Null)
    /\ UNCHANGED <<now, pos, inbox, synced, check>>

\* a drag on the timebar; dragAtOffset drops a proportion equal to the last one
Scrub(p, proportion) ==
    /\ view[p].lastDragProportion # Some(proportion)
    /\ Step(p, [handleTimebar(Clr(view[p]), proportion, now)
                    EXCEPT !.lastDragProportion = Some(proportion)],
            TimebarPublishes(view[p], proportion), "timebar", TRUE, proportion)
    /\ UNCHANGED <<now, pos, inbox, synced, check>>

\* the film dropped on p's tab
DropLongFile(p) ==
    /\ Step(p, Clr(view[p]), <<AddAssetEvent(LongAsset)>>, "dropFile", TRUE, Null)
    /\ UNCHANGED <<now, pos, inbox, synced, check>>

\* video.play() of pending play i settles: started (ok) or rejected
PlaySettles(p, i, ok) ==
    /\ i \in DOMAIN view[p].plays
    /\ ok => ~view[p].plays[i].aborted /\ ~view[p].plays[i].disposed
    /\ Step(p, playSettled(Clr(view[p]), i, ok, now),
            <<>>, "playSettled", ok, view[p].plays[i])
    /\ UNCHANGED <<now, pos, inbox, synced, check>>

\* load l of p's view settles: the video is ready (ok) or the chain rejected
LoadSettles(p, l, ok) ==
    /\ l \in view[p].loads
    /\ LET v == [Clr(view[p]) EXCEPT !.loads = @ \ {l}]
       IN  Step(p, IF ok THEN loadCompleted(v, l, now) ELSE v,
                <<>>, "loadSettled", ok, l)
    /\ UNCHANGED <<now, pos, inbox, synced, check>>

\* the future() call of p's view that is due first fires
FutureFires(p) ==
    /\ view[p].futures # <<>>
    /\ Head(view[p].futures).due <= now
    /\ LET f == Head(view[p].futures)
           v == [Clr(view[p]) EXCEPT !.futures = Tail(@)]
       IN  Step(p, IF f.method = "triggerJumpCheck" THEN triggerJumpCheck(v)
                   ELSE stepWhileBlocked(v, now),
                <<>>, f.method, TRUE, Null)
    /\ UNCHANGED <<now, pos, inbox, synced, check>>

\* a playing element moves on at its playback rate, looping at the end
Advance(ad, ms) ==
    IF ad.paused THEN ad
    ELSE [ad EXCEPT !.currentTime =
              (@ + (ms * ad.playbackRate) \div 100) % ad.duration]

\* a playing element's clock strays from the session clock by ms
Stray(ad, ms) ==
    IF ad.paused THEN ad
    ELSE [ad EXCEPT !.currentTime = (@ + ms) % ad.duration]

\* session time passes up to `end` at most; every future() call due by now
\* has fired (those of a detached view were discarded), and playing elements
\* move on, straying by `stray`
Elapse(stray, end) ==
    /\ now + FutureDelay <= end
    /\ \A p \in Views :
           \/ view[p].detached
           \/ \A i \in DOMAIN view[p].futures : view[p].futures[i].due > now
    /\ now' = now + FutureDelay
    /\ view' = [p \in Views |->
                   IF view[p].videoView = Null THEN Clr(view[p])
                   ELSE [Clr(view[p]) EXCEPT
                            !.videoView =
                                Some(Stray(Advance(view[p].videoView[1], FutureDelay),
                                           stray))]]
    /\ pub' = <<>>
    /\ last' = [op |-> "tick", p |-> 0, ok |-> TRUE, arg |-> Null, pre |-> Null]
    /\ UNCHANGED <<log, pos, inbox, synced, quota, check>>

Tick == Elapse(0, MaxNow)

\* an animation frame of p's tab
Update(p) ==
    /\ Step(p, update(Clr(view[p]), now), <<>>, "update", TRUE, Null)
    /\ UNCHANGED <<now, pos, inbox, synced, check>>

\* everything participant p's tab can do
ViewStep(p) ==
    \/ DropFile(p)
    \/ Execute(p)
    \/ OnPlayStateChanged(p)
    \/ OnLoadVideo(p)
    \/ SyncChange(p)
    \/ Click(p)
    \/ \E proportion \in Proportions : Scrub(p, proportion)
    \/ \E i \in 1..MaxPlays, ok \in BOOLEAN : PlaySettles(p, i, ok)
    \/ \E l \in view[p].loads, ok \in BOOLEAN : LoadSettles(p, l, ok)
    \/ FutureFires(p)

\* what a peer does whose tab stays in sync once it is and whose browser lets
\* videos play: it starts out of sync, scrubs to the middle of the bar only,
\* and its loads succeed
PeerStep(p) ==
    \/ Execute(p)
    \/ OnPlayStateChanged(p)
    \/ OnLoadVideo(p)
    \/ ~synced[p] /\ SyncChange(p)
    \/ Click(p)
    \/ Scrub(p, 50)
    \/ \E i \in DOMAIN view[p].plays :
           PlaySettles(p, i, ~view[p].plays[i].aborted /\ ~view[p].plays[i].disposed)
    \/ \E l \in view[p].loads : LoadSettles(p, l, TRUE)
    \/ FutureFires(p)

\* the tab goes dormant: its view is detached and it leaves the session
Detach(p) ==
    /\ ~view[p].detached
    /\ inbox' = [inbox EXCEPT ![p] = NoInbox]
    /\ synced' = [synced EXCEPT ![p] = FALSE]
    /\ Step(p, detach(Clr(view[p])), <<>>, "detach", TRUE, Null)
    /\ UNCHANGED <<now, pos, check>>

\* the tab reawakens and rejoins: its replica starts from a snapshot taken
\* after `snapshot` events and a new view is built on it; the promises of the
\* old view have settled by then
Rebuild(p, snapshot) ==
    /\ view[p].detached
    /\ view[p].plays = <<>>
    /\ view[p].loads = {}
    /\ snapshot \in 0..Len(log)
    /\ pos' = [pos EXCEPT ![p] = snapshot]
    /\ Step(p, NewViewAt(p, now, view[p].lastDragProportion), <<>>, "rebuild", TRUE, Null)
    /\ UNCHANGED <<now, inbox, synced, check>>

Init == InitWith(MaxEvents)

InitPeer == InitWith(MaxPeerEvents)

\* participant 1 alone in the session
Next ==
    \/ ViewStep(1)
    \/ Tick

Spec == Init /\ [][Next]_vars

\* what a participant does who leaves the timebar alone
CatchUpStep(p) ==
    \/ DropFile(p)
    \/ Execute(p)
    \/ OnPlayStateChanged(p)
    \/ OnLoadVideo(p)
    \/ SyncChange(p)
    \/ Click(p)
    \/ \E i \in 1..MaxPlays, ok \in BOOLEAN : PlaySettles(p, i, ok)
    \/ \E l \in view[p].loads, ok \in BOOLEAN : LoadSettles(p, l, ok)
    \/ FutureFires(p)

\* participant 1, losing and regaining sync, with a peer
NextPeer ==
    \/ CatchUpStep(1)
    \/ PeerStep(2)
    \/ Tick

SpecPeer == InitPeer /\ [][NextPeer]_vars

\* two peers on one dropped file
NextPair ==
    \/ log = <<>> /\ DropFile(1)
    \/ \E p \in Views : PeerStep(p)
    \/ Tick

SpecPair == Init /\ [][NextPair]_vars

\* what the tab of participant p does when it may go dormant once and
\* reawaken: its user starts and stops the video, the browser lets it play
\* and its loads succeed
RejoinStep(p) ==
    \/ log = <<>> /\ ~view[p].detached /\ DropFile(p)
    \/ ~view[p].detached /\ Execute(p)
    \/ ~view[p].detached /\ OnPlayStateChanged(p)
    \/ ~view[p].detached /\ OnLoadVideo(p)
    \/ ~view[p].detached /\ ~synced[p] /\ SyncChange(p)
    \/ ~view[p].detached /\ Click(p)
    \/ ~view[p].detached /\ FutureFires(p)
    \/ \E i \in DOMAIN view[p].plays :
           PlaySettles(p, i, ~view[p].plays[i].aborted /\ ~view[p].plays[i].disposed)
    \/ \E l \in view[p].loads : LoadSettles(p, l, TRUE)
    \/ ~view[p].rebuilt /\ Detach(p)
    \/ \E snapshot \in 0..MaxEvents : Rebuild(p, snapshot)

NextRejoin ==
    \/ RejoinStep(1)
    \/ Tick

\* the substrate delivers what it has queued and ends the catch-up, loads
\* finish, promises settle, and a dormant tab is reawakened
FairRejoin ==
    /\ WF_vars(~view[1].detached /\ Execute(1))
    /\ WF_vars(~view[1].detached /\ OnPlayStateChanged(1))
    /\ WF_vars(~view[1].detached /\ OnLoadVideo(1))
    /\ WF_vars(~view[1].detached /\ ~synced[1] /\ SyncChange(1))
    /\ WF_vars(\E l \in view[1].loads : LoadSettles(1, l, TRUE))
    /\ WF_vars(\E i \in DOMAIN view[1].plays :
                  PlaySettles(1, i, ~view[1].plays[i].aborted /\ ~view[1].plays[i].disposed))
    /\ WF_vars(\E snapshot \in 0..MaxEvents : Rebuild(1, snapshot))

SpecRejoin == Init /\ [][NextRejoin]_vars /\ FairRejoin

\* a frame drawn now would not check the play status again
FrameDrawn(p) == now - view[p].lastStatusCheck <= StatusInterval

\* what the tab of participant p does when its user drops a film, starts it
\* at once, from the beginning or from where the timebar was clicked, and then
\* watches: the tab is in sync, the browser lets the video play, early or
\* late, and a frame is drawn at least once per tick
DriftStep(p) ==
    \/ now = 0 /\ log = <<>> /\ DropLongFile(p)
    \/ now = 0 /\ Execute(p)
    \/ now = 0 /\ OnPlayStateChanged(p)
    \/ now = 0 /\ OnLoadVideo(p)
    \/ now = 0 /\ ~synced[p] /\ SyncChange(p)
    \/ now = 0 /\ Click(p)
    \/ now = 0 /\ \E proportion \in DriftProportions : Scrub(p, proportion)
    \/ now <= MaxSettle /\ \E i \in DOMAIN view[p].plays : PlaySettles(p, i, TRUE)
    \/ now = 0 /\ \E l \in view[p].loads : LoadSettles(p, l, TRUE)
    \/ FutureFires(p)
    \/ Update(p)

InitDrift == InitWith(MaxDriftEvents)

NextDrift ==
    \/ DriftStep(1)
    \/ FrameDrawn(1) /\ \E stray \in Drifts : Elapse(stray, MaxDriftNow)

SpecDrift == InitDrift /\ [][NextDrift]_vars

\* the same tab when it may also lose sync, and regain it, as it starts the
\* film, and its clock runs true
NextDesync ==
    \/ DriftStep(1)
    \/ now = 0 /\ synced[1] /\ SyncChange(1)
    \/ FrameDrawn(1) /\ Elapse(0, MaxDesyncNow)

SpecDesync == InitDrift /\ [][NextDesync]_vars

\* the view id of a participant that runs another application
ForeignId == 3

\* the playback states that participant asks for
ForeignStates == {PlayState(FALSE, Null, Duration \div 2), PlayState(TRUE, Some(0), 0)}

\* it publishes a setPlayState whose actionSpec has a type this application
\* does not know
ForeignGesture(state) ==
    /\ NumAssets > 0
    /\ Len(log) < quota
    /\ log' = Append(log, SetPlayStateEvent(state, Some([viewId |-> ForeignId,
                                                         type |-> "other"])))
    /\ view' = [p \in Views |-> Clr(view[p])]
    /\ pub' = <<>>
    /\ last' = [op |-> "foreign", p |-> 0, ok |-> TRUE, arg |-> Null, pre |-> Null]
    /\ UNCHANGED <<now, pos, inbox, synced, quota, check>>

\* participant 1 with a clip, scrubbing, in and out of sync, in a session that
\* a participant running another application has joined
NextForeign ==
    \/ log = <<>> /\ DropFile(1)
    \/ Execute(1)
    \/ OnPlayStateChanged(1)
    \/ OnLoadVideo(1)
    \/ SyncChange(1)
    \/ Scrub(1, 50)
    \/ \E i \in DOMAIN view[1].plays : PlaySettles(1, i, TRUE)
    \/ \E l \in view[1].loads : LoadSettles(1, l, TRUE)
    \/ \E state \in ForeignStates : ForeignGesture(state)

SpecForeign == InitWith(MaxForeignEvents) /\ [][NextForeign]_vars

\* the queued loadVideo reaches p's view, whose asset refers to blobURLs:
\* loadVideo runs and ensureAssetsAvailable sends its first round of requests
OnLoadVideoChecked(p, blobURLs) ==
    /\ inbox[p].load
    /\ inbox[p].psc = Null
    /\ synced[p]
    /\ inbox' = [inbox EXCEPT ![p].load = FALSE]
    /\ Step(p, [loadVideo(Clr(view[p]), Model(p), synced[p], now)
                    EXCEPT !.started = Model(p).assetDescriptor],
            <<>>, "loadVideo", TRUE, Model(p))
    /\ check' = StartCheck(blobURLs)
    /\ UNCHANGED <<now, pos, synced>>

\* a round of HEAD requests has settled; the URLs in `present` answered ok
RoundSettles(p, present) ==
    /\ check.status = "checking"
    /\ present \subseteq check.waitingFor
    /\ Step(p, Clr(view[p]), <<>>, "round", TRUE, Null)
    /\ check' = AfterRound(check, present)
    /\ UNCHANGED <<now, pos, inbox, synced>>

\* the chain of loadVideo settles: importVideo resolves after status 'ok',
\* ensureAssetsAvailable throws otherwise
ChainSettles(p) ==
    /\ check.status \in {"ok", "failed"}
    /\ \E l \in view[p].loads : LoadSettles(p, l, check.status = "ok")

\* participant 1 drops a clip and loads it, and the asset manager checks for
\* its blobs on the shared store
NextAssets ==
    \/ log = <<>> /\ DropFile(1)
    \/ Execute(1)
    \/ ~synced[1] /\ SyncChange(1)
    \/ \E blobURLs \in SUBSET BlobURLs : OnLoadVideoChecked(1, blobURLs)
    \/ \E present \in SUBSET BlobURLs : RoundSettles(1, present)
    \/ ChainSettles(1)

SpecAssets == InitWith(1) /\ [][NextAssets]_vars

\* the video times handed to the adapter
WrapTimes == {k * WrapStep : k \in 0..MaxWrapSteps}

\* this.videoView.wrappedTime(videoTime), as checkPlayStatus calls it
WrapAt(p, videoTime) ==
    /\ view[p].videoView # Null
    /\ Step(p, Clr(view[p]), <<>>, "wrappedTime", TRUE, Some(videoTime))
    /\ UNCHANGED <<now, pos, inbox, synced, check>>

\* the synchronous part of videoView.play(videoTime)
PlayAt(p, videoTime) ==
    /\ view[p].videoView # Null
    /\ Step(p, Issue([Clr(view[p]) EXCEPT
                          !.videoView = Some(AdapterPlay(view[p].videoView[1], videoTime))],
                      Cmd("play", Some(videoTime))),
            <<>>, "play", TRUE, Some(videoTime))
    /\ UNCHANGED <<now, pos, inbox, synced, check>>

\* videoView.pause(videoTime)
PauseAt(p, videoTime) ==
    /\ view[p].videoView # Null
    /\ Step(p, ViewPause(Clr(view[p]), Some(videoTime)), <<>>, "pause", TRUE,
            Some(videoTime))
    /\ UNCHANGED <<now, pos, inbox, synced, check>>

\* videoView.setStatic(videoTime)
SetStaticAt(p, videoTime) ==
    /\ view[p].videoView # Null
    /\ Step(p, ViewSetStatic(Clr(view[p]), Some(videoTime)), <<>>, "setStatic", TRUE,
            Some(videoTime))
    /\ UNCHANGED <<now, pos, inbox, synced, check>>

\* the armed jump check finds the element videoDiffMS off the expected time
JumpAt(p, videoDiffMS) ==
    /\ view[p].videoView # Null
    /\ view[p].videoView[1].currentTime - videoDiffMS >= 0
    /\ Step(p, JumpCheck(Clr(view[p]), videoDiffMS, now), <<>>, "jump", TRUE,
            Some(videoDiffMS))
    /\ UNCHANGED <<now, pos, inbox, synced, check>>

AdapterOps == {"wrappedTime", "play", "pause", "setStatic", "jump"}

\* a clip or a film is dropped and loaded, and then its adapter is handed a
\* video time of any kind, and the armed jump check may find it off
NextAdapter ==
    \/ log = <<>> /\ DropFile(1)
    \/ log = <<>> /\ DropLongFile(1)
    \/ Execute(1)
    \/ ~synced[1] /\ SyncChange(1)
    \/ OnLoadVideo(1)
    \/ \E l \in view[1].loads : LoadSettles(1, l, TRUE)
    \/ \E videoTime \in WrapTimes :
           /\ last.op \notin AdapterOps
           /\ \/ WrapAt(1, videoTime)
              \/ PlayAt(1, videoTime)
              \/ PauseAt(1, videoTime)
              \/ SetStaticAt(1, videoTime)
    \/ \E videoDiffMS \in JumpDiffs : last.op # "jump" /\ JumpAt(1, videoDiffMS)

SpecAdapter == InitWith(1) /\ [][NextAdapter]_vars

\* what the tab of participant p does when its user drops a film and starts it
\* from the beginning, and the element takes its time to start: the tab is in
\* sync, its clock runs true, and video.play() settles sooner or later
LateStep(p) ==
    \/ now = 0 /\ log = <<>> /\ DropLongFile(p)
    \/ now = 0 /\ Execute(p)
    \/ now = 0 /\ OnPlayStateChanged(p)
    \/ now = 0 /\ OnLoadVideo(p)
    \/ now = 0 /\ ~synced[p] /\ SyncChange(p)
    \/ now = 0 /\ Click(p)
    \/ now <= MaxLateSettle /\ \E i \in DOMAIN view[p].plays : PlaySettles(p, i, TRUE)
    \/ now = 0 /\ \E l \in view[p].loads : LoadSettles(p, l, TRUE)
    \/ FutureFires(p)
    \/ Update(p)

NextLateStart ==
    \/ LateStep(1)
    \/ FrameDrawn(1) /\ Elapse(0, MaxLateNow)

SpecLateStart == InitDrift /\ [][NextLateStart]_vars

\* the same tab when, at the end, a clip is dropped on it that replaces the
\* film
NextReplace ==
    \/ NextLateStart
    \/ now = MaxLateNow /\ NumAssets = 1 /\ DropFile(1)
    \/ now = MaxLateNow /\ Execute(1)
    \/ now = MaxLateNow /\ OnLoadVideo(1)
    \/ now = MaxLateNow /\ \E l \in view[1].loads : LoadSettles(1, l, TRUE)

SpecReplace == InitDrift /\ [][NextReplace]_vars

\* one participant drops a clip and then clicks on it again and again, in
\* sync, in a browser that may or may not let the video play
NextToggle ==
    \/ log = <<>> /\ DropFile(1)
    \/ Execute(1)
    \/ OnPlayStateChanged(1)
    \/ OnLoadVideo(1)
    \/ ~synced[1] /\ SyncChange(1)
    \/ Click(1)
    \/ \E i \in 1..MaxPlays, ok \in BOOLEAN : PlaySettles(1, i, ok)
    \/ \E l \in view[1].loads : LoadSettles(1, l, TRUE)
    \/ FutureFires(1)
    \/ Tick

SpecToggle == InitWith(MaxToggleEvents) /\ [][NextToggle]_vars

(* -------------------------------- claims -------------------------------- *)

\* the view that took the last step, before and after it
Pre == last.pre
Post == view[last.p]

ViewOps ==
    {"dropFile", "execute", "playStateChanged", "loadVideo", "synced", "click",
     "timebar", "playSettled", "loadSettled", "triggerJumpCheck", "stepWhileBlocked",
     "detach", "update"}

\* C1: a view with a loaded video that is waiting for sync issues no adapter
\* command on a playStateChanged notification and keeps the notified state;
\* nothing but a received state (a notification, loadVideo, a local gesture)
\* changes the kept state; and the synced signal then commands the adapter
\* according to the kept state: pause(pausedTime) when it says paused,
\* play(calculateVideoTime() + 0.1) when it says playing.
C1_CatchUpAppliesLatest ==
    /\ (last.op = "playStateChanged" /\ Pre.videoView # Null /\ Pre.waitingForSync)
           => /\ Post.cmds = <<>>
              /\ Post.videoView = Pre.videoView
              /\ Post.latestPlayState = Some(last.arg.state)
    /\ (last.op \in ViewOps \ {"playStateChanged", "loadVideo", "click", "timebar"})
           => Post.latestPlayState = Pre.latestPlayState
    /\ (last.op = "synced" /\ last.ok /\ Pre.videoView # Null /\ Pre.waitingForSync)
           => LET ps == Pre.latestPlayState[1]
              IN  IF ps.isPlaying
                  THEN /\ Len(Post.cmds) = 2
                       /\ Post.cmds[2] =
                              Cmd("play", Some(now - ps.startOffset[1] + Lookahead))
                       /\ Post.videoView[1].isPlaying
                  ELSE /\ Post.cmds = <<Cmd("pause", Some(ps.pausedTime))>>
                       /\ ~Post.videoView[1].isPlaying
                       /\ Post.videoView[1].paused

\* C1 witness: participant 1, its video loaded and still at 0, kept the peer's
\* scrub to 500 while waiting for sync and pauses at 500 on the synced signal
C1_Witness ==
    /\ last.op = "synced" /\ last.ok /\ last.p = 1
    /\ Pre.waitingForSync
    /\ Pre.videoView # Null
    /\ Pre.videoView[1].currentTime = 0
    /\ Pre.latestPlayState = Some(PlayState(FALSE, Null, 500))
    /\ Pre.latestActionSpec = Some([viewId |-> 2, type |-> "timebar"])
    /\ Post.cmds = <<Cmd("pause", Some(500))>>
    /\ Post.videoView[1].currentTime = 500

\* C2: a playStateChanged notification whose isPlaying, startOffset and
\* pausedTime equal those of latestPlayState issues no adapter command and
\* leaves latestPlayState and the adapter as they were.
C2_SameStateIsNoOp ==
    (/\ last.op = "playStateChanged"
     /\ Pre.latestPlayState # Null
     /\ last.arg.state.isPlaying = Pre.latestPlayState[1].isPlaying
     /\ last.arg.state.startOffset = Pre.latestPlayState[1].startOffset
     /\ last.arg.state.pausedTime = Pre.latestPlayState[1].pausedTime)
        => /\ Post.cmds = <<>>
           /\ Post.latestPlayState = Pre.latestPlayState
           /\ Post.videoView = Pre.videoView
           /\ Post.plays = Pre.plays

\* C2 witness: the echo of participant 1's own click to play comes back while
\* its video is loaded and it is in sync, and nothing is issued
C2_Witness ==
    /\ last.op = "playStateChanged" /\ last.p = 1
    /\ last.arg.actionSpec = Some([viewId |-> 1, type |-> "video"])
    /\ last.arg.state.isPlaying
    /\ Pre.latestPlayState = Some(last.arg.state)
    /\ Pre.videoView # Null
    /\ ~Pre.waitingForSync
    /\ Post.cmds = <<>>

\* C3: the completion of a load that is not the one started by the latest
\* loadVideo attaches nothing and applies nothing: videoView, latestPlayState
\* and the pending plays stay as they were and no adapter command is issued,
\* whether the latest load is still in flight or has attached already; an
\* attached adapter is always the one of the latest loadVideo.
C3_OnlyLatestLoadAttaches ==
    /\ (last.op = "loadSettled" /\ last.ok /\ last.arg.id # Pre.started)
           => /\ Post.videoView = Pre.videoView
              /\ Post.latestPlayState = Pre.latestPlayState
              /\ Post.plays = Pre.plays
              /\ Post.cmds = <<>>
    /\ \A p \in Views :
           view[p].videoView # Null => view[p].videoView[1].url = view[p].started

\* C3 witness: the load of asset 1 completes while the load of asset 2,
\* started after it, is still in flight; no adapter is attached
C3_Witness ==
    /\ last.op = "loadSettled" /\ last.ok
    /\ last.arg.id = 1
    /\ Pre.started = 2
    /\ [id |-> 2, okToGo |-> TRUE] \in Pre.loads
    /\ Post.videoView = Null

\* the pending play that settled was rejected by the element
Rejected == last.op = "playSettled" /\ ~last.ok /\ ~last.arg.disposed

\* ... and the adapter had not been paused since the attempt
RejectedWhilePlaying == Rejected /\ Pre.videoView[1].isPlaying

\* the commands applyPlayState issues for the state ps at time t
Applied(cmds, ps, t) ==
    IF ps.isPlaying
    THEN /\ Len(cmds) = 2
         /\ cmds[1].op = "rate"
         /\ cmds[2] = Cmd("play", Some(t - ps.startOffset[1] + Lookahead))
    ELSE cmds = <<Cmd("pause", Some(ps.pausedTime))>>

\* C4 as stated: every rejected play() mutes an unmuted element and puts a
\* muted one into Stepping.
C4_EveryRejectionFallsBack ==
    /\ (Rejected /\ ~Pre.videoView[1].muted) => Post.videoView[1].muted
    /\ (Rejected /\ Pre.videoView[1].muted) => Post.isStepping

\* C4, amended: a play() rejected while the adapter still counts itself as
\* playing mutes an unmuted element and re-applies the latest state (issuing
\* its command unless waiting for sync), and puts the synchronizer into
\* Stepping, with no further play(), when the element is muted already; a
\* play() that starts, or is rejected after a pause, neither mutes nor enters
\* Stepping and issues nothing. Only a click or a new adapter unmutes, so the
\* retry happens once.
C4_BlockedPlayFallsBack ==
    /\ last.op = "playSettled" =>
           IF RejectedWhilePlaying /\ ~Pre.videoView[1].muted
           THEN /\ Post.videoView[1].muted
                /\ Post.isStepping = Pre.isStepping
                /\ IF Pre.waitingForSync THEN Post.cmds = <<>>
                   ELSE Applied(Post.cmds, Pre.latestPlayState[1], now)
           ELSE IF RejectedWhilePlaying
           THEN /\ Post.isStepping
                /\ Post.videoView[1].muted
                /\ \A i \in DOMAIN Post.cmds : Post.cmds[i].op = "setStatic"
           ELSE /\ Post.isStepping = Pre.isStepping
                /\ Post.cmds = <<>>
                /\ Post.videoView # Null
                       => Post.videoView[1].muted = Pre.videoView[1].muted
    /\ (/\ last.op \in ViewOps \ {"click", "loadSettled"}
        /\ Pre.videoView # Null
        /\ Pre.videoView[1].muted)
           => Post.videoView = Null \/ Post.videoView[1].muted

\* C4 witness: the retry made with the element muted is rejected as well and
\* the synchronizer enters Stepping
C4_Witness ==
    /\ RejectedWhilePlaying
    /\ Pre.videoView[1].muted
    /\ ~Pre.isStepping
    /\ Post.isStepping
    /\ Post.cmds = <<Cmd("setStatic", Some(now - Pre.latestPlayState[1].startOffset[1]))>>

\* C5: a click on a loaded video while the synchronizer is stepping unmutes
\* the element, clears isStepping and re-applies the latest state (its
\* command is issued unless the view is waiting for sync); it publishes
\* nothing and latestPlayState stays as it was.
C5_ClickExitsStepping ==
    (last.op = "click" /\ Pre.videoView # Null /\ Pre.isStepping)
        => /\ ~Post.videoView[1].muted
           /\ ~Post.isStepping
           /\ pub = <<>>
           /\ Post.latestPlayState = Pre.latestPlayState
           /\ IF Pre.waitingForSync THEN Post.cmds = <<>>
              ELSE Applied(Post.cmds, Pre.latestPlayState[1], now)

\* C5 witness: a click on a muted, stepping video in sync whose latest state
\* is playing; play() is called again on the unmuted element
C5_Witness ==
    /\ last.op = "click"
    /\ Pre.videoView # Null /\ Pre.isStepping /\ Pre.videoView[1].muted
    /\ ~Pre.waitingForSync
    /\ Pre.latestPlayState[1].isPlaying
    /\ ~Post.isStepping /\ ~Post.videoView[1].muted
    /\ Len(Post.cmds) = 2 /\ Post.cmds[2].op = "play"
    /\ pub = <<>>

\* the click that took the last step reached the toggle
Toggled == last.op = "click" /\ ClickToggles(Pre)

\* C6: a click on a loaded, unmuted, non-stepping video whose latest state is
\* paused publishes one setPlayState with isPlaying = true, startOffset =
\* session time - 1000 * the element's current time, pausedTime = 0.
C6_ClickToPlayOffset ==
    (Toggled /\ ~Pre.latestPlayState[1].isPlaying)
        => pub = <<SetPlayStateEvent(
                       [isPlaying |-> TRUE,
                        startOffset |-> Some(now - Pre.videoView[1].currentTime),
                        pausedTime |-> 0],
                       Some([viewId |-> last.p, type |-> "video"]))>>

\* C6 witness: a click at session time 250 on a video paused at 500
C6_Witness ==
    /\ Toggled /\ ~Pre.latestPlayState[1].isPlaying
    /\ now = 250
    /\ Pre.videoView[1].currentTime = 500
    /\ Len(pub) = 1
    /\ pub[1].state = [isPlaying |-> TRUE, startOffset |-> Some(-250), pausedTime |-> 0]

\* C7: a click on a loaded, unmuted, non-stepping video whose latest state is
\* playing pauses the adapter first, without a seek, and publishes one
\* setPlayState with isPlaying = false, startOffset = null, pausedTime = the
\* element's current time at the click.
C7_ClickToPauseTime ==
    (Toggled /\ Pre.latestPlayState[1].isPlaying)
        => /\ Post.cmds # <<>> /\ Post.cmds[1] = Cmd("pause", Null)
           /\ ~Post.videoView[1].isPlaying /\ Post.videoView[1].paused
           /\ pub = <<SetPlayStateEvent(
                          [isPlaying |-> FALSE,
                           startOffset |-> Null,
                           pausedTime |-> Pre.videoView[1].currentTime],
                          Some([viewId |-> last.p, type |-> "video"]))>>

\* C7 witness: a click on a video that started at 100 and has played for 250
C7_Witness ==
    /\ Toggled /\ Pre.latestPlayState[1].isPlaying
    /\ ~Pre.videoView[1].paused
    /\ Pre.videoView[1].currentTime = 350
    /\ Len(pub) = 1
    /\ pub[1].state = [isPlaying |-> FALSE, startOffset |-> Null, pausedTime |-> 350]

\* C8 as stated: every click while a video is loaded publishes exactly one
\* setPlayState that negates the latest isPlaying.
C8_EveryClickToggles ==
    (last.op = "click" /\ Pre.videoView # Null)
        => /\ Len(pub) = 1
           /\ pub[1].type = "setPlayState"
           /\ pub[1].state.isPlaying = ~Pre.latestPlayState[1].isPlaying

\* C8, amended: a click on a loaded video that is neither stepping nor muted
\* publishes exactly one setPlayState that negates the latest isPlaying; a
\* click on a stepping or muted video publishes nothing, leaves
\* latestPlayState alone and unmutes the element.
C8_ClickTogglesUnlessMutedOrStepping ==
    (last.op = "click" /\ Pre.videoView # Null)
        => IF Pre.isStepping \/ Pre.videoView[1].muted
           THEN /\ pub = <<>>
                /\ Post.latestPlayState = Pre.latestPlayState
                /\ ~Post.videoView[1].muted
           ELSE /\ Len(pub) = 1
                /\ pub[1].type = "setPlayState"
                /\ pub[1].state.isPlaying = ~Pre.latestPlayState[1].isPlaying
                /\ Post.latestPlayState = Some(pub[1].state)

\* C8 witness: a click on a video playing muted after the unmuted attempt was
\* blocked; it removes the mute and publishes nothing
C8_Witness ==
    /\ last.op = "click"
    /\ Pre.videoView # Null /\ Pre.videoView[1].muted /\ ~Pre.isStepping
    /\ Pre.latestPlayState[1].isPlaying
    /\ ~Pre.videoView[1].paused
    /\ ~Post.videoView[1].muted
    /\ Post.latestPlayState = Pre.latestPlayState
    /\ pub = <<>>

\* a click or a scrub took the last step and published
Gesture == last.op \in {"click", "timebar"} /\ pub # <<>>

\* C9 as stated: whenever a gesture publishes, latestPlayState equals the
\* published state and the play or pause command for it has been issued.
C9_GestureAlwaysCommands ==
    Gesture
        => /\ Post.latestPlayState = Some(pub[1].state)
           /\ \E i \in DOMAIN Post.cmds :
                  Post.cmds[i].op = IF pub[1].state.isPlaying THEN "play" ELSE "pause"

\* C9, amended: whenever a click or a scrub on a loaded video publishes, it
\* publishes one setPlayState and latestPlayState already equals the published
\* state; the adapter command for that state has been issued by then if the
\* view is not waiting for sync and the state differs from the one it held;
\* otherwise the handler issues no command besides the immediate pause() of a
\* click on a playing video.
C9_GestureAppliedBeforePublish ==
    Gesture
        => LET st == pub[1].state
               own == IF last.op = "click" /\ Pre.latestPlayState[1].isPlaying
                      THEN <<Cmd("pause", Null)>>
                      ELSE <<>>
               rest == SubSeq(Post.cmds, Len(own) + 1, Len(Post.cmds))
           IN  /\ Len(pub) = 1
               /\ Post.latestPlayState = Some(st)
               /\ Len(Post.cmds) >= Len(own)
               /\ SubSeq(Post.cmds, 1, Len(own)) = own
               /\ IF ~Pre.waitingForSync /\ Pre.latestPlayState # Some(st)
                  THEN Applied(rest, st, now)
                  ELSE rest = <<>>

\* C9 witness: a click to play in sync; play() has been called and is pending,
\* and the published event has not been executed by the view's replica yet
C9_Witness ==
    /\ Gesture /\ last.op = "click"
    /\ ~Pre.waitingForSync
    /\ pub[1].state.isPlaying
    /\ Post.latestPlayState = Some(pub[1].state)
    /\ Len(Post.cmds) = 2
    /\ Post.cmds[2] = Cmd("play", Some(Pre.videoView[1].currentTime + Lookahead))
    /\ Len(Post.plays) = Len(Pre.plays) + 1
    /\ pos[last.p] < Len(log)
    /\ log[Len(log)] = pub[1]

\* every event has been executed by every replica and handled by every view
Delivered ==
    /\ log # <<>>
    /\ \A p \in Views : pos[p] = Len(log) /\ inbox[p] = NoInbox

\* C10: after a view handles a playStateChanged notification its
\* latestPlayState is the notified state; once every published event has been
\* delivered to every participant, every latestPlayState equals the play state
\* of the replicated model.
C10_ViewsConverge ==
    /\ last.op = "playStateChanged" => Post.latestPlayState = Some(last.arg.state)
    /\ Delivered =>
           \A p \in Views :
               view[p].latestPlayState =
                   Some(ModelPlayState(ModelAfter(log, Len(log))))

\* C10 witness: both participants clicked before seeing the other's click; the
\* one ordered last took the other's state in between and returns to its own
\* with its echo, which completes delivery
C10_Witness ==
    /\ Delivered
    /\ last.op = "playStateChanged"
    /\ last.arg.actionSpec # Null
    /\ last.arg.actionSpec[1].viewId = last.p
    /\ Pre.latestPlayState # Some(last.arg.state)
    /\ \E i \in DOMAIN log :
           /\ log[i].type = "setPlayState"
           /\ log[i].actionSpec[1].viewId # last.p
           /\ Pre.latestPlayState = Some(log[i].state)
    /\ \A p \in Views : view[p].latestPlayState = Some(last.arg.state)

\* C11: a view rebuilt on a model that holds an asset eventually has that
\* asset's adapter attached, with no further addAsset.
C11_RebuiltViewLoads ==
    [](\A p \in Views :
          (view[p].rebuilt /\ Model(p).assetDescriptor # NoAsset)
              => <>(/\ view[p].videoView # Null
                    /\ view[p].videoView[1].url = Model(p).assetDescriptor))

\* C12: detach leaves no adapter and no load that may still attach: an
\* attached adapter is paused and disposed of, and a load in flight at the
\* detach attaches nothing when it completes; a detached view has no adapter.
C12_DetachCancelsLoad ==
    /\ last.op = "detach"
           => /\ Post.videoView = Null
              /\ \A l \in Post.loads : ~l.okToGo
              /\ Post.cmds = IF Pre.videoView # Null
                             THEN <<Cmd("pause", Null), Cmd("dispose", Null)>>
                             ELSE <<>>
    /\ (last.op = "loadSettled" /\ Pre.detached)
           => /\ Post.videoView = Null
              /\ Post.cmds = <<>>
              /\ Post.plays = Pre.plays
    /\ \A p \in Views : view[p].detached => view[p].videoView = Null

\* C12 witness: the load of asset 1, in flight when the view was detached,
\* completes and attaches nothing
C12_Witness ==
    /\ last.op = "loadSettled" /\ last.ok
    /\ Pre.detached
    /\ last.arg.id = 1 /\ Pre.started = 1
    /\ Post.detached
    /\ Post.videoView = Null
    /\ Post.loads = {}

\* the fields of a view that make up its local sync state
SyncState(v) ==
    <<v.videoView, v.waitingForSync, v.latestPlayState, v.latestActionSpec,
      v.isStepping, v.playbackBoost, v.lastTimingCheck, v.lastRateAdjust,
      v.jumpIfNeeded>>

\* C13: a callback of a detached view (a play() completion, a load
\* completion, a stepping tick, a jump-check arm) changes none of its local
\* sync state, schedules no future() call and issues no adapter command.
C13_NoCallbackAfterDetach ==
    (/\ last.op \in {"playSettled", "loadSettled", "triggerJumpCheck", "stepWhileBlocked"}
     /\ Pre.detached)
        => /\ SyncState(Post) = SyncState(Pre)
           /\ Post.futures = Pre.futures
           /\ Post.cmds = <<>>

\* the time checkPlayStatus expects the element to show: the session time
\* since startOffset, less whole durations while it exceeds the duration
Expected(v, t) ==
    LET startOffset == v.latestPlayState[1].startOffset
        raw == t - (IF startOffset = Null THEN 0 ELSE startOffset[1])
        d == v.videoView[1].duration
    IN  IF raw > d THEN ((raw - 1) % d) + 1 ELSE raw

\* how far the element is ahead of the expected time as the last step began
Diff == Pre.videoView[1].currentTime - Expected(Pre, now)

\* the last step was a frame in which checkPlayStatus measured the drift
Measured ==
    last.op = "update" /\ Post.lastTimingCheck = now /\ Pre.lastTimingCheck # now

\* ... and evaluated the playback rate
RateEvaluated ==
    last.op = "update" /\ Post.lastRateAdjust = now /\ Pre.lastRateAdjust # now

\* C14: after a rate evaluation with diff > 150 the boost is -3, with
\* diff < -150 it is +3, with 50 < |diff| <= 150 it is 1 with the sign
\* opposite to diff; the element's rate is 1 + boost%.
C14_BoostOpposesDrift ==
    RateEvaluated
        => /\ Diff > 150 => Post.playbackBoost = -3
           /\ Diff < -150 => Post.playbackBoost = 3
           /\ (50 < Diff /\ Diff <= 150) => Post.playbackBoost = -1
           /\ (-150 <= Diff /\ Diff < -50) => Post.playbackBoost = 1
           /\ Post.videoView[1].playbackRate = 100 + Post.playbackBoost

\* C14 witness: the element is found more than 150 ms behind while running at
\* the normal rate and is set to run 3% faster
C14_Witness ==
    /\ RateEvaluated
    /\ Diff < -150
    /\ Pre.playbackBoost = 0
    /\ Post.playbackBoost = 3
    /\ Post.cmds = <<Cmd("rate", Some(103))>>

\* C15: a rate evaluation that desires 0% (|diff| <= 50) while the boost is
\* not 0 keeps the boost and the rate if diff has the sign opposite to the
\* boost and |diff| >= 25, and sets boost 0 and the normal rate otherwise.
C15_HysteresisOnReturnToZero ==
    (RateEvaluated /\ Abs(Diff) <= 50 /\ Pre.playbackBoost # 0)
        => IF Sign(Diff) = - Sign(Pre.playbackBoost) /\ Abs(Diff) >= 25
           THEN /\ Post.playbackBoost = Pre.playbackBoost
                /\ Post.videoView[1].playbackRate = Pre.videoView[1].playbackRate
                /\ Post.cmds = <<>>
           ELSE /\ Post.playbackBoost = 0
                /\ Post.videoView[1].playbackRate = 100
                /\ Post.cmds = <<Cmd("rate", Some(100))>>

\* C15 witness: running 1% faster, the element is found still behind by 25 ms
\* or more, and at most 50, and the boost stays
C15_Witness ==
    /\ RateEvaluated
    /\ Pre.playbackBoost = 1
    /\ Diff <= -25 /\ Diff >= -50
    /\ Post.playbackBoost = 1
    /\ Post.videoView[1].playbackRate = 101

\* C19: a drift measurement comes no sooner than 500 ms after the previous
\* one, and a rate evaluation no sooner than 3000 ms after the previous one
\* and after the latest application of a playing state.
C19_DriftCorrectionIsRateLimited ==
    /\ Measured
           => Pre.measuredAt = Null \/ now - Pre.measuredAt[1] >= 500
    /\ RateEvaluated
           => /\ Pre.ratedAt = Null \/ now - Pre.ratedAt[1] >= 3000
              /\ Pre.appliedAt # Null
              /\ now - Pre.appliedAt[1] >= 3000

\* C19 witness: the second rate evaluation of a video that has played since 0,
\* 3000 ms after the first and 500 ms after the previous measurement
C19_Witness ==
    /\ RateEvaluated
    /\ Pre.appliedAt = Some(0)
    /\ Pre.ratedAt = Some(now - 3000)
    /\ Pre.measuredAt = Some(now - 500)
    /\ Measured

\* the last step issued a hard seek to the element
Jumped == \E i \in DOMAIN Post.cmds : Post.cmds[i].op = "seek"

\* C16: checkPlayStatus seeks only when the jump check is armed, seeks once
\* and disarms it; only triggerJumpCheck arms it. So between two armings there
\* is at most one hard seek, however many frames are drawn.
C16_JumpCheckIsOneShot ==
    /\ (last.op = "update" /\ Jumped)
           => /\ Pre.jumpIfNeeded
              /\ ~Post.jumpIfNeeded
              /\ Cardinality({i \in DOMAIN Post.cmds : Post.cmds[i].op = "seek"}) = 1
    /\ (last.op \in ViewOps /\ ~Pre.jumpIfNeeded /\ Post.jumpIfNeeded)
           => last.op = "triggerJumpCheck"

\* C16 witness: the video was jumped once, the jump check has not been armed
\* since, and a later measurement finds it more than 500 ms off again but
\* leaves it where it is
C16_Witness ==
    /\ Measured
    /\ Pre.jumpedAt # Null
    /\ Pre.jumpedAt[1] < now
    /\ ~Pre.jumpIfNeeded
    /\ Abs(Diff) > 500
    /\ 2 * Diff < Pre.videoView[1].duration
    /\ ~Jumped
    /\ Post.videoView[1].currentTime = Pre.videoView[1].currentTime

\* C17: a measurement with diff >= duration/2 is ignored: no command goes to
\* the element, its time and rate stay, and playbackBoost, an armed jump check
\* and lastRateAdjust are left as they were.
C17_HalfDurationAheadIgnored ==
    (Measured /\ 2 * Diff >= Pre.videoView[1].duration)
        => /\ Post.cmds = <<>>
           /\ Post.videoView = Pre.videoView
           /\ Post.playbackBoost = Pre.playbackBoost
           /\ Post.jumpIfNeeded = Pre.jumpIfNeeded
           /\ Post.lastRateAdjust = Pre.lastRateAdjust

\* C17 witness: the expected time has passed the end of the film and the
\* element, started late, has not; the jump check is armed and stays armed
C17_Witness ==
    /\ Measured
    /\ 2 * Diff >= Pre.videoView[1].duration
    /\ Pre.jumpIfNeeded
    /\ Post.jumpIfNeeded
    /\ Post.cmds = <<>>

\* the running element and the expected time lie on opposite sides of the loop
\* restart: half a duration or more apart as measured, and within the jump
\* threshold of each other across the restart
SpansLoopRestart ==
    /\ ~Pre.videoView[1].paused
    /\ 2 * Abs(Diff) >= Pre.videoView[1].duration
    /\ Pre.videoView[1].duration - Abs(Diff) <= JumpThreshold

\* C18: a measurement that spans the loop restart causes neither a hard seek
\* nor a rate change, whichever of the element and the expected time is ahead.
C18_LoopRestartIgnoredBothWays ==
    (Measured /\ SpansLoopRestart)
        => /\ Post.cmds = <<>>
           /\ Post.videoView = Pre.videoView
           /\ Post.playbackBoost = Pre.playbackBoost

\* C20: checkPlayStatus measures the drift (and so seeks or changes the rate)
\* only with a video loaded, the participant not waiting for sync, and the
\* adapter playing and not blocked.
C20_DriftCorrectionOnlyWhenActive ==
    Measured
        => /\ Pre.videoView # Null
           /\ ~Pre.waitingForSync
           /\ Pre.videoView[1].isPlaying
           /\ ~Pre.videoView[1].isBlocked

\* C21: while the jump check is armed, a playing state has been applied and
\* the latest such application, which issued the latest play, lies at least
\* 250 ms back.
C21_ArmedOnlyAfterFreshPlaySettled ==
    \A p \in Views :
        view[p].jumpIfNeeded
            => /\ view[p].appliedAt # Null
               /\ now - view[p].appliedAt[1] >= FutureDelay

\* C22: the unguarded wrappedTime of every time t >= 0 lies in [0, duration)
\* and equals t mod duration.
C22_WrappedTimeIsModulo ==
    last.op = "wrappedTime"
        => LET duration == Post.videoView[1].duration
               t == last.arg[1]
               r == wrappedTime(duration, t, FALSE)
           IN  /\ 0 <= r
               /\ r < duration
               /\ r = t % duration

\* the last step handed the adapter a video time to seek to
Sought == last.op \in {"play", "pause", "setStatic", "jump"} /\ Post.cmds # <<>>

\* C23: the guarded wrappedTime never exceeds duration - 0.1 s: after play(t),
\* pause(t), setStatic(t) and the hard jump of the drift check the element's
\* time is at most duration - 100 ms, and it is the loop-reduced time
\* whenever that is not beyond it.
C23_GuardedSeekKeepsOffTheEnd ==
    Sought
        => LET ad == Post.videoView[1]
               t == IF last.op = "jump"
                    THEN Pre.videoView[1].currentTime - last.arg[1] + JumpLookahead
                    ELSE last.arg[1]
           IN  /\ ad.currentTime <= ad.duration - 100
               /\ ad.currentTime >= 0
               /\ LoopBack(t, ad.duration) <= ad.duration - 100
                      => ad.currentTime = LoopBack(t, ad.duration)

\* C23 witness: play is handed a time that loops to within 100 ms of the end
\* of the clip and the element is sent to 100 ms before the end instead
C23_Witness ==
    /\ last.op = "play"
    /\ Post.videoView[1].duration = Duration
    /\ last.arg[1] > Duration
    /\ LoopBack(last.arg[1], Duration) > Duration - 100
    /\ Post.videoView[1].currentTime = Duration - 100
    /\ Post.cmds = <<Cmd("play", last.arg)>>

\* C24: in every replica that holds an asset, pausedTime is at least 0 and
\* less than the duration of that asset.
C24_PausedTimeWithinDuration ==
    \A p \in Views :
        Model(p).assetDescriptor # NoAsset
            => /\ Model(p).pausedTime >= 0
               /\ Model(p).pausedTime < DurationOf(Model(p).assetDescriptor)

\* a playback state has a start offset exactly when it is playing
OffsetIffPlaying(state) == (state.startOffset # Null) <=> state.isPlaying

\* C25: in every replica and in every view's latestPlayState, startOffset is a
\* session time exactly when isPlaying is true and null exactly when it is
\* false.
C25_StartOffsetIffPlaying ==
    \A p \in Views :
        /\ Model(p).assetDescriptor # NoAsset
               => OffsetIffPlaying(ModelPlayState(Model(p)))
        /\ view[p].latestPlayState # Null
               => OffsetIffPlaying(view[p].latestPlayState[1])

\* C25 witness: a scrub replaces a playing state, with its start offset, by a
\* paused one without, in the view and in the event it publishes
C25_Witness ==
    /\ last.op = "timebar"
    /\ Pre.latestPlayState # Null
    /\ Pre.latestPlayState[1].isPlaying
    /\ Pre.latestPlayState[1].startOffset # Null
    /\ ~Post.latestPlayState[1].isPlaying
    /\ Post.latestPlayState[1].startOffset = Null
    /\ Len(pub) = 1
    /\ pub[1].state.startOffset = Null

\* what one step does to the replica of participant p
ReplicaStep(p) ==
    LET m == Model(p)
        ev == log[pos[p] + 1]
    IN  IF pos'[p] = pos[p] THEN Model(p)' = m
        ELSE /\ pos'[p] = pos[p] + 1
             /\ pos[p] < Len(log)
             /\ IF ev.type = "addAsset"
                THEN /\ Model(p)' = [isPlaying |-> FALSE, startOffset |-> Null,
                                     pausedTime |-> 0,
                                     assetDescriptor |-> ev.assetDescriptor]
                     /\ inbox'[p].load
                     /\ inbox'[p].psc = inbox[p].psc
                ELSE /\ ev.type = "setPlayState"
                     /\ Model(p)'.isPlaying = ev.state.isPlaying
                     /\ Model(p)'.startOffset = ev.state.startOffset
                     /\ Model(p)'.pausedTime = ev.state.pausedTime
                     /\ Model(p)'.assetDescriptor = m.assetDescriptor
                     /\ inbox'[p].psc = Some([state |-> ev.state,
                                              actionSpec |-> ev.actionSpec])
                     /\ inbox'[p].load = inbox[p].load

\* C26: a replica changes only by executing addAsset or setPlayState. addAsset
\* leaves {isPlaying: false, startOffset: null, pausedTime: 0} with the new
\* asset descriptor and publishes loadVideo; setPlayState copies the three
\* values of the event, keeps the asset descriptor and publishes one
\* playStateChanged with those values and the actionSpec.
C26_ReplicaChangesByItsTwoEvents == [][\A p \in Views : ReplicaStep(p)]_vars

\* C26 witness: a replica that holds an asset has executed a setPlayState and
\* queued its playStateChanged
C26_Witness ==
    /\ last.op = "execute"
    /\ pos[last.p] >= 2
    /\ log[pos[last.p]].type = "setPlayState"
    /\ Model(last.p).assetDescriptor # NoAsset
    /\ ModelPlayState(Model(last.p)) = log[pos[last.p]].state
    /\ inbox[last.p].psc = Some([state |-> log[pos[last.p]].state,
                                 actionSpec |-> log[pos[last.p]].actionSpec])

\* C27: a scrub to `proportion` of a loaded video publishes one setPlayState
\* with isPlaying false, startOffset null and pausedTime = duration *
\* proportion, whatever the state before; with no video loaded it publishes
\* nothing and leaves the synchronizer as it was.
C27_ScrubAlwaysPauses ==
    last.op = "timebar"
        => IF Pre.videoView # Null
           THEN /\ Len(pub) = 1
                /\ pub[1].type = "setPlayState"
                /\ pub[1].state =
                       [isPlaying |-> FALSE, startOffset |-> Null,
                        pausedTime |->
                            (Pre.videoView[1].duration * last.arg) \div 100]
                /\ pub[1].actionSpec # Null
                /\ pub[1].actionSpec[1].type = "timebar"
                /\ pub[1].actionSpec[1].viewId = last.p
           ELSE /\ pub = <<>>
                /\ Post = [Pre EXCEPT !.lastDragProportion = Some(last.arg)]

\* C27 witness: a playing video is scrubbed to the middle and the pause at
\* half its duration is published
C27_Witness ==
    /\ last.op = "timebar"
    /\ last.arg = 50
    /\ Pre.videoView # Null
    /\ Pre.latestPlayState[1].isPlaying
    /\ Pre.videoView[1].isPlaying
    /\ Len(pub) = 1
    /\ pub[1].state = PlayState(FALSE, Null, Duration \div 2)

\* C28: a view never points at its own action; it points only at the action
\* of the notification whose new state it is applying, not at one it has
\* pointed at before; and it points whenever it applies the new state of
\* another participant's notification.
C28_PointerOnlyForOthersNewState ==
    last.op \in ViewOps
        => /\ \A i \in DOMAIN Post.reveal : Post.reveal[i].viewId # last.p
           /\ Post.reveal # <<>>
                  => /\ Post.reveal = <<Post.latestActionSpec[1]>>
                     /\ last.op = "playStateChanged" \/ ~Pre.pointed
           /\ (/\ last.op = "playStateChanged"
               /\ last.arg.actionSpec # Null
               /\ last.arg.actionSpec[1].viewId # last.p
               /\ Pre.videoView # Null
               /\ ~Pre.waitingForSync
               /\ Pre.latestPlayState # Some(last.arg.state))
                  => Post.reveal = <<last.arg.actionSpec[1]>>

\* the last step delivered another participant's notification whose
\* actionSpec has an unknown type
UnknownTypeDelivered ==
    /\ last.op = "playStateChanged"
    /\ last.arg.actionSpec # Null
    /\ last.arg.actionSpec[1].viewId # last.p
    /\ last.arg.actionSpec[1].type \notin {"video", "timebar"}

\* C29 as stated: such a notification raises an error on every participant
\* that receives it with a video loaded.
C29_UnknownTypeAlwaysThrows ==
    (UnknownTypeDelivered /\ Pre.videoView # Null) => Post.threw

\* C29, amended: such a notification raises an error on receipt exactly when
\* the view has a video loaded, is not waiting for sync, and the state it
\* carries differs from the view's latest state; otherwise it is stored
\* silently.
C29_UnknownTypeThrowsWhenApplied ==
    UnknownTypeDelivered
        => /\ Post.threw <=> /\ Pre.videoView # Null
                             /\ ~Pre.waitingForSync
                             /\ Pre.latestPlayState # Some(last.arg.state)
           /\ Post.reveal = <<>>
           /\ Post.latestActionSpec = last.arg.actionSpec

\* C29 witness: a paused, loaded view in sync receives the other
\* application's request to play, starts playing and throws
C29_Witness ==
    /\ UnknownTypeDelivered
    /\ Pre.videoView # Null
    /\ ~Pre.waitingForSync
    /\ ~Pre.latestPlayState[1].isPlaying
    /\ last.arg.state.isPlaying
    /\ Post.videoView[1].isPlaying
    /\ Post.threw

\* C30: the availability check takes at most maxRetries + 1 = 61 rounds; it
\* ends 'ok' exactly when every URL has answered ok in some round, and
\* otherwise fails after the 61st round; the load attaches an adapter after
\* 'ok' and none after a failure.
C30_AvailabilityCheckIsBounded ==
    /\ check.rounds <= MaxRetries + 1
    /\ check.status = "checking"
           => /\ check.rounds + check.retries = MaxRetries
              /\ check.rounds > 0 => check.confirmed # check.urls
    /\ check.status = "ok" => check.confirmed = check.urls
    /\ check.status = "failed"
           => /\ check.confirmed # check.urls
              /\ check.rounds = MaxRetries + 1
    /\ (last.op = "loadSettled" /\ check.status # "idle")
           => /\ last.ok <=> check.status = "ok"
              /\ last.ok <=> check.confirmed = check.urls
              /\ Post.videoView # Null <=> last.ok
              /\ ~last.ok => Post.cmds = <<>>

\* C30 witness: one of two blobs never appeared; the check gave up after 61
\* rounds and the load attached nothing
C30_Witness ==
    /\ last.op = "loadSettled"
    /\ ~last.ok
    /\ check.status = "failed"
    /\ check.rounds = 61
    /\ check.urls = BlobURLs
    /\ check.confirmed = {"source"}
    /\ Post.videoView = Null
    /\ Post.loads = {}

\* the asset the replicated model holds once everything published is executed
LatestAsset == ModelAfter(log, Len(log)).assetDescriptor

\* C31: a setPlayState published by a click or a scrub was computed on the
\* adapter of the asset it will act on: when the gesture publishes, the video
\* attached to the gesturing view is the one of the latest addAsset, so that
\* only a gesture on the new asset changes the new asset's playback state.
C31_GestureActsOnItsOwnAsset ==
    (last.op \in {"click", "timebar"} /\ pub # <<>>)
        => Pre.videoView[1].url = LatestAsset

\* the deferred stepWhileBlocked calls pending at view v
PendingSteps(v) ==
    {i \in DOMAIN v.futures : v.futures[i].method = "stepWhileBlocked"}

\* C32: at any time at most one deferred stepWhileBlocked call is pending at
\* a view, whatever state changes, play rejections and clicks occur while a
\* stepping tick is scheduled.
C32_OneSteppingSchedule ==
    \A p \in Views : Cardinality(PendingSteps(view[p])) <= 1

\* C33: isStepping is true only while an adapter is attached, and a stepping
\* tick that passes its isStepping guard finds an adapter: it never fails on
\* a videoView that is null, also after a new loadVideo replaced the asset.
C33_SteppingOnlyWithAdapter ==
    /\ \A p \in Views :
           (view[p].isStepping /\ ~view[p].detached) => view[p].videoView # Null
    /\ (last.op = "stepWhileBlocked" /\ Pre.isStepping)
           => Pre.videoView # Null /\ ~Post.threw

\* the last step evaluated calculateVideoTime: a drift measurement of
\* checkPlayStatus, or a stepping tick that issued its static frame
EvaluatedVideoTime ==
    \/ last.op = "update" /\ Post.measuredAt = Some(now)
    \/ last.op = "stepWhileBlocked" /\ Post.cmds # <<>>

\* C34: an adapter that counts itself as playing, or a synchronizer that is
\* stepping, implies that the latest play state is playing; so
\* calculateVideoTime is only evaluated on a playing state with a start
\* offset.
C34_VideoTimeOnlyWhilePlaying ==
    /\ \A p \in Views :
           (view[p].videoView # Null
            /\ (view[p].videoView[1].isPlaying \/ view[p].isStepping))
               => view[p].latestPlayState[1].isPlaying
    /\ EvaluatedVideoTime
           => /\ Pre.latestPlayState[1].isPlaying
              /\ Pre.latestPlayState[1].startOffset # Null

\* C35: while a view is waiting for sync, a click, a scrub or a stepping tick
\* issues no command to the adapter.
C35_NoLocalCommandWhileWaiting ==
    (last.op \in {"click", "timebar", "stepWhileBlocked"} /\ Pre.waitingForSync)
        => Post.cmds = <<>>

\* the play() that settled was rejected after a pause of its element, which
\* is still attached
RejectedAfterPause ==
    /\ last.op = "playSettled" /\ ~last.ok
    /\ last.arg.aborted /\ ~last.arg.disposed

\* C36: a play() that is rejected after a paused state was applied while it
\* was in flight does not start the autoplay fallback: the adapter is left
\* not playing and not blocked, the element is not muted by the handler and
\* the synchronizer does not enter Stepping.
C36_RejectionAfterPauseIsQuiet ==
    RejectedAfterPause
        => /\ ~Post.videoView[1].isPlaying
           /\ ~Post.videoView[1].isBlocked
           /\ Post.videoView[1].muted = Pre.videoView[1].muted
           /\ Post.isStepping = Pre.isStepping

\* the last step is the completion of a load whose importVideo produced an
\* adapter; only the completion handler holds a reference to that adapter
AdapterProduced == last.op = "loadSettled" /\ last.ok

\* C37: every adapter produced by a load is attached as the view's videoView
\* or disposed of; the handler that receives it is the only code that can
\* reach it, so it is attached or disposed of by the end of that handler,
\* also when the load was abandoned by a newer loadVideo or by detach.
C37_EveryAdapterAttachedOrDisposed ==
    AdapterProduced
        => \/ /\ Post.videoView # Null
              /\ Post.videoView[1].url = last.arg.id
           \/ \E i \in DOMAIN Post.cmds : Post.cmds[i].op = "dispose"

\* the last step was a measurement that found the jump check armed and was
\* not ignored as taken across a loop restart
ArmedMeasurement ==
    /\ Measured
    /\ Pre.jumpIfNeeded
    /\ 2 * Diff < Pre.videoView[1].duration

\* C38: a measurement that is not ignored and finds the jump check armed
\* disarms it, whether it seeks (|diff| > 500) or not, and evaluates no rate:
\* playbackBoost, the element's rate and lastRateAdjust stay as they were and
\* no rate is set.
C38_ArmedMeasurementOnlyJumps ==
    ArmedMeasurement
        => /\ ~Post.jumpIfNeeded
           /\ Jumped <=> Abs(Diff) > 500
           /\ Post.playbackBoost = Pre.playbackBoost
           /\ Post.videoView[1].playbackRate = Pre.videoView[1].playbackRate
           /\ Post.lastRateAdjust = Pre.lastRateAdjust
           /\ Post.ratedAt = Pre.ratedAt
           /\ \A i \in DOMAIN Post.cmds : Post.cmds[i].op # "rate"

\* C38 witness: the film started late; the jump check, armed 3000 ms after the
\* playing state was applied, finds the element more than 500 ms behind at a
\* moment when a rate evaluation is due, seeks, and leaves the rate alone
C38_Witness ==
    /\ ArmedMeasurement
    /\ now - Pre.lastRateAdjust >= 3000
    /\ Diff < -500
    /\ Jumped
    /\ ~Post.jumpIfNeeded
    /\ Post.playbackBoost = 0
    /\ Post.lastRateAdjust = Pre.lastRateAdjust

\* the last step attached the adapter of a new asset
Attached ==
    /\ last.op = "loadSettled"
    /\ Post.videoView # Null
    /\ Pre.videoView = Null

\* C39: with an adapter attached, playbackBoost is one of -3, -1, 0, 1, 3 and
\* the element's playback rate is 1 + playbackBoost%; the boost is 0 right
\* after a new asset is attached, and otherwise only a rate evaluation of
\* checkPlayStatus changes it.
C39_RateFollowsBoost ==
    /\ \A p \in Views :
           view[p].videoView # Null
               => /\ view[p].playbackBoost \in {-3, -1, 0, 1, 3}
                  /\ view[p].videoView[1].playbackRate = 100 + view[p].playbackBoost
    /\ Attached => Post.playbackBoost = 0
    /\ (last.op \in ViewOps /\ Post.playbackBoost # Pre.playbackBoost)
           => RateEvaluated \/ Attached

\* C39 witness: the film ran 3% faster when it was replaced; the clip that
\* replaces it is attached with boost 0 and the normal rate
C39_Witness ==
    /\ Attached
    /\ Pre.playbackBoost = 3
    /\ Post.playbackBoost = 0
    /\ Post.videoView[1].url # LongAsset
    /\ Post.videoView[1].playbackRate = 100

====
